---- MODULE Spec2Model ----
(***************************************************************************)
(* Model of the Crypto Issue Monitor bot (src/monitor_issues.py): the      *)
(* triage pipeline of CryptoIssueMonitor, run repeatedly by main().        *)
(*                                                                         *)
(* Texts are TLA+ strings handled as sequences of characters (Len, SubSeq, *)
(* \o), so keyword matching, the @mention and issue-link scans and the     *)
(* difflib alignment are computed character by character as the code      *)
(* computes them.  A nullable JSON field is an option: <<>> for null,      *)
(* <<v>> for a value v.                                                    *)
(***************************************************************************)
EXTENDS Integers, Sequences, FiniteSets, TLC

(***************************************************************************)
(* Text primitives: str.lower(), the `in` substring test.                  *)
(***************************************************************************)
UpperChars == "ABCDEFGHIJKLMNOPQRSTUVWXYZ"

LowerChars == "abcdefghijklmnopqrstuvwxyz"

CharAt(s, i) == SubSeq(s, i, i)

LowerChar(c) ==
    IF \E k \in 1..Len(UpperChars) : CharAt(UpperChars, k) = c
    THEN CharAt(LowerChars, CHOOSE k \in 1..Len(UpperChars) : CharAt(UpperChars, k) = c)
    ELSE c

RECURSIVE Lower(_)
Lower(s) == IF Len(s) = 0 THEN "" ELSE LowerChar(CharAt(s, 1)) \o Lower(Tail(s))

\* word in content
Contains(word, content) ==
    \E i \in 1..(Len(content) - Len(word) + 1) :
        SubSeq(content, i, i + Len(word) - 1) = word

\* any(word in content for word in words)
AnyIn(words, content) == \E k \in 1..Len(words) : Contains(words[k], content)

\* issue.get('body', '') or ''
BodyOrEmpty(issue) == IF issue.body = <<>> THEN "" ELSE issue.body[1]

\* f"{title} {body}" of the lower-cased title and body (lines 103-106, 115-117)
Content(issue) == Lower(issue.title) \o " " \o Lower(BodyOrEmpty(issue))

(***************************************************************************)
(* The world the bot runs in: the source issues GitHub can return, the     *)
(* open issues of the target tracker, and the configurations of            *)
(* config.json.  Source issues carry the fields GitHub always populates    *)
(* (number, title, html_url, user.login, created_at, repository_url); the  *)
(* body is nullable.                                                       *)
(***************************************************************************)
MaxRuns == 2

MaxFetch == 2

MkIssue(repo, number, title, body, user, pull_request) ==
    [ number         |-> number,
      title          |-> title,
      body           |-> body,
      user           |-> user,
      html_url       |-> "https://github.com/" \o repo \o "/issues/" \o number,
      created_at     |-> "2024-05-01T10:00:00Z",
      repository_url |-> "https://api.github.com/repos/" \o repo,
      pull_request   |-> pull_request ]

IssueFundsStuck ==
    MkIssue("acme/wallet", "42", "Funds stuck after swap", <<"cc @realuser, urgent!">>,
            "botaccount", FALSE)

IssueReadme == MkIssue("acme/wallet", "7", "Update README badges", <<>>, "alice", FALSE)

PullRequestFix ==
    MkIssue("acme/wallet", "9", "Fix stuck swap", <<"closes #42">>, "maintainer", TRUE)

IssueWalletLag ==
    MkIssue("defi/dex", "42", "Wallet lag",
            <<"Same as https://github.com/acme/wallet/issues/42 reported by @carol">>,
            "dave", FALSE)

IssueGasFee ==
    MkIssue("defi/dex", "3", "GAS fee too HIGH",
            <<"Duplicate of https://github.com/defi/dex/issues/1, mail me @ home">>,
            "erin", FALSE)

\* what GET /repos/{repo}/issues can list, most recent first
RepoTimeline(repo) ==
    IF repo = "acme/wallet" THEN <<PullRequestFix, IssueFundsStuck, IssueReadme>>
    ELSE IF repo = "defi/dex" THEN <<IssueWalletLag, IssueGasFee>>
    ELSE <<>>

\* what GET /search/issues can list (is:issue excludes pull requests)
SearchTimeline == <<IssueFundsStuck, IssueWalletLag, IssueReadme, IssueGasFee>>

RECURSIVE Pick(_, _, _)
Pick(timeline, chosen, k) ==
    IF k > Len(timeline) THEN <<>>
    ELSE (IF k \in chosen THEN <<timeline[k]>> ELSE <<>>) \o Pick(timeline, chosen, k + 1)

\* the pages of at most MaxFetch entries a listing of the timeline can return
Pages(timeline) ==
    { Pick(timeline, chosen, 1) :
        chosen \in { c \in SUBSET (1..Len(timeline)) : Cardinality(c) <= MaxFetch } }

Responses(payloads) ==
    { [kind |-> "ok", data |-> d] : d \in payloads }
    \cup { [kind |-> k, data |-> <<>>] : k \in {"status", "exception"} }

TargetIssue(number, title) == [number |-> number, title |-> title]

\* pages of open issues of the target tracker, most recent first
TargetListings ==
    { <<>>,
      << TargetIssue("11", "Funds lost in swap"),
         TargetIssue("12", "Funds lost since swap"),
         TargetIssue("13", "Wallet fix"),
         TargetIssue("14", "Wallet fixed") >>,
      << TargetIssue("21", "Funds lost in swap"),
         TargetIssue("22", "Tokens stuck after swap"),
         TargetIssue("23", "[AUTO] Funds stuck after swap"),
         TargetIssue("24", "Funds stuck after a swap") >> }

SourceIssues == {IssueFundsStuck, IssueReadme, IssueWalletLag, IssueGasFee}

SourceTitles == { issue.title : issue \in SourceIssues }

TargetTitles == UNION { { listing[k].title : k \in 1..Len(listing) } : listing \in TargetListings }

\* the team_assignments default of load_config (lines 41-50)
DefaultTeam ==
    [ c \in {"wallet", "security", "bug", "transaction", "contract", "gas-fee", "help",
             "general"} |->
        IF c = "security" THEN <<"@autumndss">> ELSE <<"@keisinoc">> ]

Configs ==
    { [ monitored_repos  |-> <<"acme/wallet", "defi/dex">>,
        keywords         |-> <<"stuck", "Wallet", "gas">>,
        team_assignments |-> DefaultTeam ],
      [ monitored_repos  |-> <<"acme/wallet", "defi/dex">>,
        keywords         |-> <<"swap", "Wallet">>,
        team_assignments |-> [ c \in {"wallet", "transaction", "general"} |->
                                 IF c = "wallet" THEN <<"@walletdev", "@backup">>
                                 ELSE IF c = "transaction" THEN <<>>
                                 ELSE <<"lead">> ] ] }

RateLimitMargin == 100

\* the remaining request budget GitHub reports in a run
Budgets == {RateLimitMargin - 1, RateLimitMargin}

(***************************************************************************)
(* Relevance filter and priority classifier.                               *)
(***************************************************************************)
matches_criteria(issue, keywords) ==
    \E k \in 1..Len(keywords) : Contains(Lower(keywords[k]), Content(issue))

CriticalWords ==
    <<"critical", "urgent", "emergency", "security breach", "exploit", "hack",
      "funds at risk", "total loss">>

UrgentWords == <<"urgent", "asap", "immediately", "cant access", "locked out", "lost funds">>

HighWords == <<"high", "important", "stuck", "frozen", "missing balance">>

LowWords == <<"minor", "low", "suggestion", "enhancement", "feature request">>

\* matches_criteria for the issues and keyword lists of the world, computed once
Relevant ==
    [ issue \in SourceIssues, keywords \in { c.keywords : c \in Configs } |->
        matches_criteria(issue, keywords) ]

\* a chain that tests the low tier first
detect_priority_LowFirst(issue) ==
    LET content == Content(issue)
    IN  IF AnyIn(LowWords, content) THEN "priority-low"
        ELSE IF AnyIn(CriticalWords, content) THEN "priority-critical"
        ELSE IF AnyIn(UrgentWords, content) THEN "priority-urgent"
        ELSE IF AnyIn(HighWords, content) THEN "priority-high"
        ELSE "priority-medium"

detect_priority(issue) ==
    LET content == Content(issue)
    IN  IF AnyIn(CriticalWords, content) THEN "priority-critical"
        ELSE IF AnyIn(UrgentWords, content) THEN "priority-urgent"
        ELSE IF AnyIn(HighWords, content) THEN "priority-high"
        ELSE IF AnyIn(LowWords, content) THEN "priority-low"
        ELSE "priority-medium"

\* detect_priority for the issues of the world, computed once
PriorityOf == [ issue \in SourceIssues |-> detect_priority(issue) ]

(***************************************************************************)
(* difflib.SequenceMatcher(None, a, b).ratio() as similarity() calls it.   *)
(* Indices are 1-based and ranges are inclusive: a[alo..ahi], b[blo..bhi]. *)
(* Titles here are shorter than 200 characters, so difflib's autojunk      *)
(* heuristic (which only applies when len(b) >= 200) never triggers.       *)
(***************************************************************************)
\* length of the common run of a[i..ahi] and b[j..bhi] starting at (i, j)
RECURSIVE RunLen(_, _, _, _, _, _)
RunLen(a, b, i, j, ahi, bhi) ==
    IF i > ahi \/ j > bhi \/ CharAt(a, i) # CharAt(b, j) THEN 0
    ELSE 1 + RunLen(a, b, i + 1, j + 1, ahi, bhi)

\* find_longest_match: the longest block; of those the one starting
\* earliest in a; of those the one starting earliest in b
find_longest_match(a, b, alo, ahi, blo, bhi) ==
    LET cand == { <<i, j>> \in (alo..ahi) \X (blo..bhi) : CharAt(a, i) = CharAt(b, j) }
        len  == [ c \in cand |-> RunLen(a, b, c[1], c[2], ahi, bhi) ]
    IN  IF cand = {} THEN [i |-> alo, j |-> blo, size |-> 0]
        ELSE LET best == CHOOSE c \in cand :
                            \A d \in cand :
                                \/ len[c] > len[d]
                                \/ len[c] = len[d] /\ c[1] < d[1]
                                \/ len[c] = len[d] /\ c[1] = d[1] /\ c[2] <= d[2]
             IN  [i |-> best[1], j |-> best[2], size |-> len[best]]

\* sum of the sizes of get_matching_blocks(): the longest block, then the
\* same to its left and to its right
RECURSIVE MatchingChars(_, _, _, _, _, _)
MatchingChars(a, b, alo, ahi, blo, bhi) ==
    IF alo > ahi \/ blo > bhi THEN 0
    ELSE LET m == find_longest_match(a, b, alo, ahi, blo, bhi)
         IN  IF m.size = 0 THEN 0
             ELSE m.size
                  + MatchingChars(a, b, alo, m.i - 1, blo, m.j - 1)
                  + MatchingChars(a, b, m.i + m.size, ahi, m.j + m.size, bhi)

\* similarity(text1, text2) as the exact fraction num/den that ratio()
\* rounds to a float: 2.0 * matches / length, and 1.0 when both are empty
similarity(text1, text2) ==
    LET a == Lower(text1)
        b == Lower(text2)
    IN  IF Len(a) + Len(b) = 0 THEN [num |-> 1, den |-> 1]
        ELSE [num |-> 2 * MatchingChars(a, b, 1, Len(a), 1, Len(b)),
              den |-> Len(a) + Len(b)]


\* similarity for the titles of the world, computed once
SimilarityOf ==
    [ text1 \in SourceTitles, text2 \in TargetTitles |-> similarity(text1, text2) ]

(***************************************************************************)
(* Duplicate detector.  A collaborator response is a record whose kind is  *)
(* "ok" (the success status, with its payload), "status" (any other        *)
(* status) or "exception" (timeout or transport error).                    *)
(***************************************************************************)
ThresholdNum == 7

ThresholdDen == 10

\* a strict comparison
AtThreshold_Strict(sim) == sim.num * ThresholdDen > ThresholdNum * sim.den

\* title_similarity >= 0.7
AtThreshold(sim) == sim.num * ThresholdDen >= ThresholdNum * sim.den

RECURSIVE DuplicatesOf(_, _)
DuplicatesOf(issue_title, existing_issues) ==
    IF existing_issues = <<>> THEN <<>>
    ELSE LET existing == Head(existing_issues)
             title_similarity == SimilarityOf[issue_title, existing.title]
         IN  (IF AtThreshold(title_similarity)
              THEN << [number |-> existing.number, title |-> existing.title,
                       similarity |-> title_similarity] >>
              ELSE <<>>)
             \o DuplicatesOf(issue_title, Tail(existing_issues))

\* the loop for the titles and listings of the world, computed once
DuplicatesMemo ==
    [ issue_title \in SourceTitles, existing_issues \in TargetListings |->
        DuplicatesOf(issue_title, existing_issues) ]

check_for_duplicates(issue_title, resp) ==
    IF resp.kind = "ok" THEN DuplicatesMemo[issue_title, resp.data] ELSE <<>>

(***************************************************************************)
(* Assignee lookup.  team_assignments is a function from category names to *)
(* handle lists; the result is an option (<<>> is None).                   *)
(***************************************************************************)
get_assignee_for_category(category, team_assignments) ==
    LET assignees ==
            IF category \in DOMAIN team_assignments THEN team_assignments[category]
            ELSE IF "general" \in DOMAIN team_assignments THEN team_assignments["general"]
            ELSE <<>>
    IN  IF assignees # <<>> THEN << assignees[1] >> ELSE <<>>

(***************************************************************************)
(* Owner resolver: the two regular expressions, scanned left to right.     *)
(***************************************************************************)
HandleChars == "abcdefghijklmnopqrstuvwxyzABCDEFGHIJKLMNOPQRSTUVWXYZ0123456789_-"

DigitChars == "0123456789"

InClass(c, class) == Len(c) = 1 /\ Contains(c, class)

\* first index >= i whose character is not a handle character ([a-zA-Z0-9_-]+ is greedy)
RECURSIVE HandleEnd(_, _)
HandleEnd(s, i) ==
    IF i <= Len(s) /\ InClass(CharAt(s, i), HandleChars) THEN HandleEnd(s, i + 1) ELSE i

\* first index >= i whose character is not a digit (\d+ is greedy)
RECURSIVE DigitsEnd(_, _)
DigitsEnd(s, i) ==
    IF i <= Len(s) /\ InClass(CharAt(s, i), DigitChars) THEN DigitsEnd(s, i + 1) ELSE i

\* first index >= i whose character is "/" ([^/]+ is greedy), or Len(s) + 1
RECURSIVE NonSlashEnd(_, _)
NonSlashEnd(s, i) ==
    IF i <= Len(s) /\ CharAt(s, i) # "/" THEN NonSlashEnd(s, i + 1) ELSE i

StartsWithAt(s, i, p) == i + Len(p) - 1 <= Len(s) /\ SubSeq(s, i, i + Len(p) - 1) = p

\* re.findall(r'@([a-zA-Z0-9_-]+)', issue_body): the handles, here the first
find_real_issue_owner(issue_body) ==
    LET starts == { i \in 1..Len(issue_body) :
                        CharAt(issue_body, i) = "@" /\ HandleEnd(issue_body, i + 1) > i + 1 }
    IN  IF issue_body = "" \/ starts = {} THEN <<>>
        ELSE LET i == CHOOSE k \in starts : \A m \in starts : k <= m
             IN  << SubSeq(issue_body, i + 1, HandleEnd(issue_body, i + 1) - 1) >>

LinkPrefix == "https://github.com/"

IssuesSegment == "/issues/"

\* the index after a match of https://github\.com/[^/]+/[^/]+/issues/\d+
\* that starts at i, or 0 when none starts there
LinkEndAt(s, i) ==
    LET p1 == i + Len(LinkPrefix)
        e1 == NonSlashEnd(s, p1)
        p2 == e1 + 1
        e2 == NonSlashEnd(s, p2)
        p3 == e2 + Len(IssuesSegment)
        e3 == DigitsEnd(s, p3)
    IN  IF /\ StartsWithAt(s, i, LinkPrefix)
           /\ e1 > p1 /\ e1 <= Len(s)
           /\ e2 > p2 /\ StartsWithAt(s, e2, IssuesSegment)
           /\ e3 > p3
        THEN e3
        ELSE 0

\* re.findall(...)[0] when there is a match: option of the first link
FirstLink(issue_body) ==
    LET starts == { i \in 1..Len(issue_body) : LinkEndAt(issue_body, i) > 0 }
    IN  IF starts = {} THEN <<>>
        ELSE LET i == CHOOSE k \in starts : \A m \in starts : k <= m
             IN  << SubSeq(issue_body, i, LinkEndAt(issue_body, i) - 1) >>

\* both scans for the bodies of the world, computed once
LinkOf == [ issue \in SourceIssues |-> FirstLink(BodyOrEmpty(issue)) ]

MentionOf == [ issue \in SourceIssues |-> find_real_issue_owner(BodyOrEmpty(issue)) ]

\* get_original_issue_owner on a link FirstLink found (its own pattern is the
\* same one without the scheme, so it always matches): the creator of the
\* fetched issue on status 200, None otherwise
get_original_issue_owner(issue_url, resp) ==
    IF resp.kind = "ok" THEN << resp.data >> ELSE <<>>

\* a chain that asks the @mention first
find_real_owner_MentionFirst(issue, linkResp) ==
    IF MentionOf[issue] # <<>> THEN MentionOf[issue][1]
    ELSE IF LinkOf[issue] # <<>> /\ linkResp.kind = "ok" THEN linkResp.data
    ELSE issue.user

\* find_real_owner: linked issue, then @mention, then the reporter
find_real_owner(issue, linkResp) ==
    LET github_links == LinkOf[issue]
        fromLink     == IF github_links # <<>>
                        THEN get_original_issue_owner(github_links[1], linkResp)
                        ELSE <<>>
        fromMention  == MentionOf[issue]
    IN  IF fromLink # <<>> /\ fromLink[1] # "" THEN fromLink[1]
        ELSE IF fromMention # <<>> THEN fromMention[1]
        ELSE issue.user

(***************************************************************************)
(* Issue composer: create_issue_in_target_repo up to the payload it posts. *)
(***************************************************************************)
BugWords == <<"bug", "error", "broken", "crash", "failed">>

SecurityWords == <<"security", "vulnerability", "exploit", "hack">>

WalletWords ==
    <<"wallet", "balance", "account", "private key", "seed phrase", "coinbase",
      "metamask", "ledger", "trezor">>

TransactionWords == <<"transaction", "swap", "transfer", "tx">>

ContractWords == <<"contract", "smart contract", "solidity">>

GasFeeWords == <<"gas", "fee">>

HelpWords == <<"help", "question", "how to">>

NoDescription == "*No description provided*"

\* original_issue.get('body', '') or '*No description provided*'
OriginalBody(issue) == IF BodyOrEmpty(issue) = "" THEN NoDescription ELSE issue.body[1]

\* the category chain of lines 302-320, on the title and original_body
CategoryOf(issue) ==
    LET content == Lower(issue.title) \o " " \o Lower(OriginalBody(issue))
    IN  IF AnyIn(BugWords, content) THEN "bug"
        ELSE IF AnyIn(SecurityWords, content) THEN "security"
        ELSE IF AnyIn(WalletWords, content) THEN "wallet"
        ELSE IF AnyIn(TransactionWords, content) THEN "transaction"
        ELSE IF AnyIn(ContractWords, content) THEN "contract"
        ELSE IF AnyIn(GasFeeWords, content) THEN "gas-fee"
        ELSE IF AnyIn(HelpWords, content) THEN "help"
        ELSE "general"

CategoryMemo == [ issue \in SourceIssues |-> CategoryOf(issue) ]

\* f'source:{source_repo.split("/")[0]}'
SourceLabel(source_repo) == "source:" \o SubSeq(source_repo, 1, NonSlashEnd(source_repo, 1) - 1)

DisplayCap == 3

\* a slice that keeps the last entries
DuplicateSection_Last(duplicates) ==
    SubSeq(duplicates,
           IF Len(duplicates) < DisplayCap THEN 1 ELSE Len(duplicates) - DisplayCap + 1,
           Len(duplicates))

\* for dup in duplicates[:3]: one rendered line per entry
DuplicateSection(duplicates) ==
    SubSeq(duplicates, 1, IF Len(duplicates) < DisplayCap THEN Len(duplicates) ELSE DisplayCap)

\* labels = ['auto-detected', priority_label]; append category, source, duplicate flag
LabelsOf(priority_label, category, source_repo, duplicates) ==
    <<"auto-detected", priority_label, category, SourceLabel(source_repo)>>
    \o (IF duplicates # <<>> THEN <<"possible-duplicate">> ELSE <<>>)

\* if assignee and assignee.startswith('@'): payload['assignees'] = [assignee[1:]]
PayloadAssignees(assignee) ==
    IF assignee # <<>> /\ assignee[1] # "" /\ StartsWithAt(assignee[1], 1, "@")
    THEN << Tail(assignee[1]) >>
    ELSE <<>>

\* The payload posted to the target tracker, and what the call returns:
\* <<[number, real_owner]>> on status 201, <<>> (None) otherwise.
create_issue_in_target_repo(original_issue, source_repo, team_assignments, env) ==
    LET issue_title    == original_issue.title
        real_owner     == find_real_owner(original_issue, env.link)
        priority_label == PriorityOf[original_issue]
        duplicates     == check_for_duplicates(issue_title, env.dup)
        category       == CategoryMemo[original_issue]
        assignee       == get_assignee_for_category(category, team_assignments)
        payload ==
            [ title     |-> "[AUTO] " \o issue_title,
              body      |-> [ source_repo       |-> source_repo,
                              source_url        |-> original_issue.html_url,
                              source_user       |-> original_issue.user,
                              real_owner        |-> real_owner,
                              created_at        |-> original_issue.created_at,
                              priority          |-> priority_label,
                              description       |-> OriginalBody(original_issue),
                              duplicate_section |-> DuplicateSection(duplicates) ],
              labels    |-> LabelsOf(priority_label, category, source_repo, duplicates),
              assignees |-> PayloadAssignees(assignee) ]
    IN  [ payload    |-> payload,
          category   |-> category,
          assignee   |-> assignee,
          duplicates |-> duplicates,
          created    |-> IF env.create.kind = "ok"
                         THEN << [number |-> env.create.data, real_owner |-> real_owner] >>
                         ELSE <<>> ]

\* mention_real_owner_in_our_issue: True on status 201, False otherwise
mention_real_owner_in_our_issue(our_issue_number, real_owner, resp) == resp.kind = "ok"

(***************************************************************************)
(* State.                                                                  *)
(***************************************************************************)
VARIABLES
    config,        \* config.json as load_config read it
    disk,          \* the 'issues' list of processed_issues.json, as a set
    run,           \* number of the current invocation of main()
    budget,        \* the remaining API budget during this run
    pc,            \* where the run is
    processed,     \* self.processed_issues
    repoIdx,       \* position of `for repo in self.monitored_repos`
    issues,        \* the list the current `for issue in issues` iterates
    issueIdx,      \* its position
    rate_checked,  \* check_rate_limit was called in this run
    fetched,       \* an issue fetch or search request was sent in this run
    last,          \* what the loop body did with the issue it handled last
    failed         \* identifiers whose create_issue call failed in some run

vars == <<config, disk, run, budget, pc, processed, repoIdx, issues, issueIdx,
          rate_checked, fetched, last, failed>>

NoIssue ==
    [ id |-> "", issue |-> <<>>, outcome |-> "none", composed |-> <<>>,
      listing |-> <<>>, linked |-> <<>>, comment |-> <<>> ]

Init ==
    /\ config \in Configs
    /\ disk = {}
    /\ run = 1
    /\ budget \in Budgets
    /\ pc = "start"
    /\ processed = {}
    /\ repoIdx = 1
    /\ issues = <<>>
    /\ issueIdx = 1
    /\ rate_checked = FALSE
    /\ fetched = FALSE
    /\ last = NoIssue
    /\ failed = {}

(***************************************************************************)
(* Helpers of the run.                                                     *)
(***************************************************************************)
\* a load that forgets the file
load_processed_issues_Empty == {}

\* load_processed_issues: the set of the identifiers in the file
load_processed_issues == disk

\* check_rate_limit on a response that arrived: remaining on 200, else 0
check_rate_limit(resp) == IF resp.kind = "ok" THEN resp.data ELSE 0

\* get_recent_issues: the entries that are no pull requests; [] on a failure
get_recent_issues(resp) ==
    IF resp.kind = "ok" THEN SelectSeq(resp.data, LAMBDA issue : ~issue.pull_request)
    ELSE <<>>

\* largest index <= i of a "/" in s, 0 when there is none
RECURSIVE LastSlash(_, _)
LastSlash(s, i) == IF i < 1 THEN 0 ELSE IF CharAt(s, i) = "/" THEN i ELSE LastSlash(s, i - 1)

\* parts = repository_url.split('/'); f"{parts[-2]}/{parts[-1]}"
RepoOfUrl(url) == SubSeq(url, LastSlash(url, LastSlash(url, Len(url)) - 1) + 1, Len(url))

\* f"{repo}#{issue['number']}"
IssueId(repo, issue) == repo \o "#" \o issue.number

\* the responses the collaborators can give while one issue is handled
Envs(issue) ==
    LET links == IF LinkOf[issue] = <<>> THEN { [kind |-> "none", data |-> <<>>] }
                 ELSE Responses({"origuser"})
    IN  [ link    : links,
          dup     : Responses(TargetListings),
          create  : Responses({"101"}) \ Responses({}),
          comment : Responses({"ok"}) ]
        \cup
        [ link    : links,
          dup     : Responses(TargetListings),
          create  : Responses({}),
          comment : { [kind |-> "none", data |-> <<>>] } ]

\* an add that does not look at the result of the create call
RecordCreated_Always(proc, issue_id, created) == proc \cup {issue_id}

\* if created: self.processed_issues.add(issue_id)
RecordCreated(proc, issue_id, created) ==
    IF created # <<>> THEN proc \cup {issue_id} ELSE proc

\* an else branch that forgets the issue
RecordIrrelevant_Never(proc, issue_id) == proc

\* else: self.processed_issues.add(issue_id)
RecordIrrelevant(proc, issue_id) == proc \cup {issue_id}

\* what the loop body leaves behind once create_issue_in_target_repo returned
\* `made`: on success the identifier is recorded and the real owner tagged
Mirrored(issue, issue_id, proc, env, made) ==
    [ processed |-> RecordCreated(proc, issue_id, made.created),
      last      |->
        [ id       |-> issue_id,
          issue    |-> <<issue>>,
          outcome  |-> IF made.created # <<>> THEN "created" ELSE "failed",
          composed |-> <<made>>,
          listing  |-> IF env.dup.kind = "ok" THEN <<env.dup.data>> ELSE <<>>,
          linked   |-> IF env.link.kind = "ok" THEN <<env.link.data>> ELSE <<>>,
          comment  |-> IF made.created # <<>>
                       THEN << [ number     |-> made.created[1].number,
                                 real_owner |-> made.created[1].real_owner,
                                 sent       |-> mention_real_owner_in_our_issue(
                                                    made.created[1].number,
                                                    made.created[1].real_owner,
                                                    env.comment) ] >>
                       ELSE <<>> ] ]

\* lines 384-393 and 433-442: create the issue; on success record the
\* identifier and tag the real owner
Mirror(issue, repo, proc, env) ==
    Mirrored(issue, IssueId(repo, issue), proc, env,
             create_issue_in_target_repo(issue, repo, config.team_assignments, env))

Bypassed(issue, repo, outcome) ==
    [NoIssue EXCEPT !.id = IssueId(repo, issue), !.issue = <<issue>>, !.outcome = outcome]

\* the body of the loop of monitor_repositories (lines 375-395)
MonitorBody(issue, repo, proc, env) ==
    IF IssueId(repo, issue) \in proc
    THEN [processed |-> proc, last |-> Bypassed(issue, repo, "skipped")]
    ELSE IF Relevant[issue, config.keywords]
    THEN Mirror(issue, repo, proc, env)
    ELSE [ processed |-> RecordIrrelevant(proc, IssueId(repo, issue)),
           last      |-> Bypassed(issue, repo, "irrelevant") ]

\* the body of the loop of search_github_for_crypto_issues (lines 427-444)
SearchBody(issue, repo, proc, env) ==
    IF IssueId(repo, issue) \notin proc /\ Relevant[issue, config.keywords]
    THEN Mirror(issue, repo, proc, env)
    ELSE [ processed |-> RecordIrrelevant(proc, IssueId(repo, issue)),
           last      |-> Bypassed(issue, repo,
                            IF IssueId(repo, issue) \in proc THEN "skipped" ELSE "irrelevant") ]

\* the state a pass of a loop body leaves
Handled(did) ==
    /\ processed' = did.processed
    /\ last' = did.last
    /\ failed' = IF did.last.outcome = "failed" THEN failed \cup {did.last.id} ELSE failed

(***************************************************************************)
(* Actions.                                                                *)
(***************************************************************************)
\* main() up to the call of the run mode: __init__ (token check, load_config,
\* load_processed_issues) and the USE_GITHUB_SEARCH switch
Main ==
    /\ pc = "start"
    /\ \E token \in BOOLEAN, use_search \in BOOLEAN :
        IF ~token
        THEN /\ pc' = "config_error"
             /\ UNCHANGED processed
        ELSE /\ processed' = load_processed_issues
             /\ pc' = IF use_search THEN "search" ELSE "rate_limit"
    /\ UNCHANGED <<config, disk, run, budget, repoIdx, issues, issueIdx, rate_checked,
                   fetched, last, failed>>

\* monitor_repositories, lines 355-358: the pre-flight rate-limit check;
\* check_rate_limit has no try/except, so a transport error leaves main()
MonitorStart ==
    /\ pc = "rate_limit"
    /\ rate_checked' = TRUE
    /\ \E resp \in Responses({budget}) :
        IF resp.kind = "exception"
        THEN pc' = "crashed"
        ELSE IF check_rate_limit(resp) < RateLimitMargin
        THEN pc' = "done"
        ELSE pc' = "repos"
    /\ UNCHANGED <<config, disk, run, budget, processed, repoIdx, issues, issueIdx,
                   fetched, last, failed>>

\* lines 363-372: the next repository's recent issues
FetchRepo ==
    /\ pc = "repos"
    /\ repoIdx <= Len(config.monitored_repos)
    /\ fetched' = TRUE
    /\ \E resp \in Responses(Pages(RepoTimeline(config.monitored_repos[repoIdx]))) :
        LET found == get_recent_issues(resp)
        IN  IF found = <<>>
            THEN /\ repoIdx' = repoIdx + 1
                 /\ UNCHANGED <<pc, issues, issueIdx>>
            ELSE /\ issues' = found
                 /\ issueIdx' = 1
                 /\ pc' = "issues"
                 /\ UNCHANGED repoIdx
    /\ UNCHANGED <<config, disk, run, budget, processed, rate_checked, last, failed>>

\* lines 374-395: one pass of the loop body, then the next issue or repository
MonitorIssue ==
    /\ pc = "issues"
    /\ \E env \in Envs(issues[issueIdx]) :
        Handled(MonitorBody(issues[issueIdx], config.monitored_repos[repoIdx],
                            processed, env))
    /\ IF issueIdx < Len(issues)
       THEN /\ issueIdx' = issueIdx + 1
            /\ UNCHANGED <<pc, repoIdx>>
       ELSE /\ pc' = "repos"
            /\ repoIdx' = repoIdx + 1
            /\ UNCHANGED issueIdx
    /\ UNCHANGED <<config, disk, run, budget, issues, rate_checked, fetched>>

\* line 397: save_processed_issues once every repository was visited
MonitorSave ==
    /\ pc = "repos"
    /\ repoIdx > Len(config.monitored_repos)
    /\ disk' = processed
    /\ pc' = "done"
    /\ UNCHANGED <<config, run, budget, processed, repoIdx, issues, issueIdx,
                   rate_checked, fetched, last, failed>>

\* search_github_for_crypto_issues, lines 418-424 and 448-451: the search
\* request; no rate-limit check precedes it
SearchFetch ==
    /\ pc = "search"
    /\ fetched' = TRUE
    /\ \E resp \in Responses(Pages(SearchTimeline)) :
        IF resp.kind # "ok"
        THEN /\ pc' = "done"
             /\ UNCHANGED <<issues, issueIdx>>
        ELSE /\ issues' = resp.data
             /\ issueIdx' = 1
             /\ pc' = IF resp.data = <<>> THEN "search_save" ELSE "search_issues"
    /\ UNCHANGED <<config, disk, run, budget, processed, repoIdx, rate_checked, last,
                   failed>>

\* lines 426-444: one pass of the loop body
SearchIssue ==
    /\ pc = "search_issues"
    /\ \E env \in Envs(issues[issueIdx]) :
        Handled(SearchBody(issues[issueIdx], RepoOfUrl(issues[issueIdx].repository_url),
                           processed, env))
    /\ IF issueIdx < Len(issues)
       THEN /\ issueIdx' = issueIdx + 1
            /\ UNCHANGED pc
       ELSE /\ pc' = "search_save"
            /\ UNCHANGED issueIdx
    /\ UNCHANGED <<config, disk, run, budget, repoIdx, issues, rate_checked, fetched>>

\* line 446: save_processed_issues after the loop
SearchSave ==
    /\ pc = "search_save"
    /\ disk' = processed
    /\ pc' = "done"
    /\ UNCHANGED <<config, run, budget, processed, repoIdx, issues, issueIdx,
                   rate_checked, fetched, last, failed>>

\* the scheduler starts main() again in a fresh process: only the files
\* (config.json, processed_issues.json) carry over
NextRun ==
    /\ pc \in {"done", "crashed", "config_error"}
    /\ run < MaxRuns
    /\ run' = run + 1
    /\ budget' \in Budgets
    /\ pc' = "start"
    /\ processed' = {}
    /\ repoIdx' = 1
    /\ issues' = <<>>
    /\ issueIdx' = 1
    /\ rate_checked' = FALSE
    /\ fetched' = FALSE
    /\ last' = NoIssue
    /\ UNCHANGED <<config, disk, failed>>

Next ==
    \/ Main
    \/ MonitorStart
    \/ FetchRepo
    \/ MonitorIssue
    \/ MonitorSave
    \/ SearchFetch
    \/ SearchIssue
    \/ SearchSave
    \/ NextRun

Spec == Init /\ [][Next]_vars

(***************************************************************************)
(* The two classifiers on their own: detect_priority (line 269) and the    *)
(* category chain with the labels (lines 300-323) of                       *)
(* create_issue_in_target_repo, applied to one issue drawn from a set of   *)
(* titles and bodies.                                                      *)
(***************************************************************************)
SampleTitles ==
    { "Exploit found, minor typo", "Minor bug in swap", "Locked out of wallet ASAP",
      "Contract gas fee important", "How to transfer", "Update README badges",
      "Slow sync", "Help" }

\* <<>> is an absent (null) body
SampleBodies ==
    { <<>>, <<"">>, <<"URGENT: funds at risk">>, <<"feature request">>,
      <<"smart contract reverted">>, <<"Seed phrase leaked, hack suspected">>,
      <<"thanks">> }

SampleIssues ==
    { MkIssue("acme/wallet", "5", title, body, "frank", FALSE) :
        title \in SampleTitles, body \in SampleBodies }

ClassifyInit ==
    /\ config \in { c \in Configs : c.team_assignments = DefaultTeam }
    /\ disk = {}
    /\ run = 1
    /\ budget = RateLimitMargin
    /\ pc = "classify"
    /\ processed = {}
    /\ repoIdx = 1
    /\ \E issue \in SampleIssues : issues = <<issue>>
    /\ issueIdx = 1
    /\ rate_checked = FALSE
    /\ fetched = FALSE
    /\ last = NoIssue
    /\ failed = {}

\* line 269: priority_label = self.detect_priority(original_issue)
DetectPriority ==
    /\ pc = "classify"
    /\ last' = [NoIssue EXCEPT
                   !.id = IssueId("acme/wallet", issues[issueIdx]),
                   !.issue = <<issues[issueIdx]>>,
                   !.outcome = "priority",
                   !.composed = << [priority_label |-> detect_priority(issues[issueIdx])] >>]
    /\ pc' = "categorize"
    /\ UNCHANGED <<config, disk, run, budget, processed, repoIdx, issues, issueIdx,
                   rate_checked, fetched, failed>>

\* what lines 300-323 add to the priority label
Labelled(priority_label, category, source_repo) ==
    [ priority_label |-> priority_label,
      category       |-> category,
      labels         |-> LabelsOf(priority_label, category, source_repo, <<>>) ]

\* lines 300-323: the category chain and the labels
Categorize ==
    /\ pc = "categorize"
    /\ last' = [last EXCEPT
                   !.outcome = "labelled",
                   !.composed = << Labelled(last.composed[1].priority_label,
                                            CategoryOf(issues[issueIdx]), "acme/wallet") >>]
    /\ pc' = "labelled"
    /\ UNCHANGED <<config, disk, run, budget, processed, repoIdx, issues, issueIdx,
                   rate_checked, fetched, failed>>

ClassifyNext ==
    \/ DetectPriority
    \/ Categorize

ClassifySpec == ClassifyInit /\ [][ClassifyNext]_vars

(***************************************************************************)
(* Properties.                                                             *)
(***************************************************************************)
\* the step handles an issue: only the loop bodies are enabled there
InLoop == pc \in {"issues", "search_issues"}

\* the payload of the issue handled last was composed and posted
Composed == last.composed # <<>>

LabelSet(made) == { made.payload.labels[k] : k \in 1..Len(made.payload.labels) }

\* C1: the end-to-end scenario issue (title 'Funds stuck after swap', body
\* 'cc @realuser, urgent!'), composed with no duplicate found, is classified
\* priority-urgent and gets exactly the labels auto-detected, priority-urgent,
\* transaction and source:acme.
C1_ScenarioIsUrgent ==
    (Composed /\ last.issue = <<IssueFundsStuck>> /\ last.composed[1].duplicates = <<>>)
    => /\ last.composed[1].payload.body.priority = "priority-urgent"
       /\ LabelSet(last.composed[1])
            = {"auto-detected", "priority-urgent", "transaction", "source:acme"}

\* C2: a loop body never posts an issue whose identifier is in the processed
\* set, which at the start of a run is the persisted file, in either run mode.
C2_ProcessedNeverSubmitted ==
    [][ /\ (InLoop /\ last'.composed # <<>>)
            => (last'.id \notin processed /\ last'.id \notin disk)
        /\ (pc = "start" /\ pc' # "config_error") => processed' = disk ]_vars

\* a second run meets the scenario issue, which the first run created and
\* persisted, and passes it by
C2_Witness ==
    /\ run = 2
    /\ last.issue = <<IssueFundsStuck>>
    /\ last.outcome = "skipped"
    /\ last.id = "acme/wallet#42"
    /\ last.id \in disk
    /\ last.id \notin failed

\* C3: when the create call fails, the identifier stays out of the processed
\* set, no comment is posted, the loop goes on to the next issue (or ends
\* normally); and whenever a relevant issue that is not in the processed set
\* is handled, a later run included, the create call is made.
C3_FailedCreateIsRetried ==
    [][ InLoop =>
          /\ (last'.outcome = "failed") =>
                /\ last'.id \notin processed'
                /\ last'.comment = <<>>
                /\ \/ pc' = pc /\ issueIdx' = issueIdx + 1 /\ issueIdx' <= Len(issues)
                   \/ pc' \in {"repos", "search_save"} /\ issueIdx = Len(issues)
          /\ (last'.id \notin processed /\ Relevant[last'.issue[1], config.keywords])
                => last'.composed # <<>> ]_vars

\* an issue whose create call failed in the first run is created in the second
C3_Witness ==
    /\ run = 2
    /\ last.outcome = "created"
    /\ last.id \in failed
    /\ last.id \in processed

\* C4: an issue matching no configured keyword that is not yet processed is
\* neither posted nor commented on, its identifier is added to the processed
\* set, and the set loses no identifier until the run ends.
C4_RelevanceGate ==
    [][ /\ (InLoop /\ last'.id \notin processed
              /\ ~Relevant[last'.issue[1], config.keywords])
            => (last'.composed = <<>> /\ last'.comment = <<>> /\ last'.id \in processed')
        /\ (pc \notin {"done", "crashed", "config_error", "start"})
            => processed \subseteq processed' ]_vars

\* the README issue matches no keyword: the run is over, nothing was posted
\* for it and its identifier is in the processed set and in the file
C4_Witness ==
    /\ pc = "done"
    /\ run = 1
    /\ last.issue = <<IssueReadme>>
    /\ last.outcome = "irrelevant"
    /\ last.composed = <<>>
    /\ "acme/wallet#7" \in processed
    /\ "acme/wallet#7" \in disk

\* the owner a composed issue names
OwnerOf(made) == made.payload.body.real_owner

\* C5: the owner is the linked issue's creator when the body holds an issue
\* link and its fetch succeeded, else the first @mention when there is one,
\* else the reporter; the notification goes to that one handle.
C5_OwnerChain ==
    Composed =>
        /\ OwnerOf(last.composed[1])
             = IF LinkOf[last.issue[1]] # <<>> /\ last.linked # <<>> THEN last.linked[1]
               ELSE IF MentionOf[last.issue[1]] # <<>> THEN MentionOf[last.issue[1]][1]
               ELSE last.issue[1].user
        /\ OwnerOf(last.composed[1]) # ""
        /\ last.comment # <<>> => last.comment[1].real_owner = OwnerOf(last.composed[1])
        /\ (last.issue[1] = IssueFundsStuck) => OwnerOf(last.composed[1]) = "realuser"
        /\ (last.issue[1] = IssueWalletLag) =>
               OwnerOf(last.composed[1]) = IF last.linked # <<>> THEN "origuser" ELSE "carol"
        /\ (last.issue[1] = IssueGasFee) =>
               OwnerOf(last.composed[1]) = IF last.linked # <<>> THEN "origuser" ELSE "erin"

\* link and @mention in one body, the link resolved: the creator wins
C5_Witness ==
    /\ Composed
    /\ last.issue = <<IssueWalletLag>>
    /\ MentionOf[IssueWalletLag] = <<"carol">>
    /\ last.linked = <<"origuser">>
    /\ OwnerOf(last.composed[1]) = "origuser"
    /\ last.comment # <<>>

\* matching characters of the alignment of the lower-cased titles
Alignment ==
    [ a \in SourceTitles, b \in TargetTitles |->
        MatchingChars(Lower(a), Lower(b), 1, Len(a), 1, Len(b)) ]

ReportedNumbers(made) == { made.duplicates[k].number : k \in 1..Len(made.duplicates) }

\* 2*M / (len(a) + len(b)) >= 0.70, in integers
AtSeventyPercent(a, b) == 20 * Alignment[a, b] >= 7 * (Len(a) + Len(b))

\* C6: an open issue of the listing is reported as a duplicate if and only
\* if 2*M / (len(a) + len(b)) >= 0.70; the reported similarity is that ratio.
C6_DuplicateThreshold ==
    (Composed /\ last.listing # <<>>) =>
        /\ \A k \in 1..Len(last.listing[1]) :
              (last.listing[1][k].number \in ReportedNumbers(last.composed[1]))
              <=> AtSeventyPercent(last.issue[1].title, last.listing[1][k].title)
        /\ \A k \in 1..Len(last.composed[1].duplicates) :
              /\ last.composed[1].duplicates[k].similarity.num
                   = 2 * Alignment[last.issue[1].title, last.composed[1].duplicates[k].title]
              /\ last.composed[1].duplicates[k].similarity.den
                   = Len(last.issue[1].title) + Len(last.composed[1].duplicates[k].title)

\* 'Funds lost in swap' is at exactly 0.70 (M = 14 of 22 + 18 characters) and
\* is reported; 'Funds lost since swap' (M = 15 of 22 + 21, 0.698) is not
C6_Witness ==
    /\ Composed
    /\ last.issue = <<IssueFundsStuck>>
    /\ last.listing # <<>>
    /\ Len(last.listing[1]) = 4
    /\ last.listing[1][1].title = "Funds lost in swap"
    /\ last.listing[1][2].title = "Funds lost since swap"
    /\ 20 * Alignment["Funds stuck after swap", "Funds lost in swap"] = 7 * (22 + 18)
    /\ Alignment["Funds stuck after swap", "Funds lost since swap"] = 15
    /\ ReportedNumbers(last.composed[1]) = {"11"}

\* the duplicate section of a composed issue
SectionOf(made) == made.payload.body.duplicate_section

\* sim1 <= sim2 as fractions
SimLeq(sim1, sim2) == sim1.num * sim2.den <= sim2.num * sim1.den

\* the section holds the Min(3, number of matches) first entries it is given
CappedAt(section, matches) ==
    Len(section) = (IF Len(matches) < 3 THEN Len(matches) ELSE 3)

\* C7 as stated: the section lists the matches with the highest similarity
\* (no match left out is more similar than a listed one), and the duplicate
\* label is there exactly when there is a match.
C7_SectionIsTopThree ==
    Composed =>
        /\ CappedAt(SectionOf(last.composed[1]), last.composed[1].duplicates)
        /\ \A m \in 1..Len(last.composed[1].duplicates) :
              \/ \E k \in 1..Len(SectionOf(last.composed[1])) :
                    SectionOf(last.composed[1])[k] = last.composed[1].duplicates[m]
              \/ \A k \in 1..Len(SectionOf(last.composed[1])) :
                    SimLeq(last.composed[1].duplicates[m].similarity,
                           SectionOf(last.composed[1])[k].similarity)
        /\ ("possible-duplicate" \in LabelSet(last.composed[1]))
             <=> (last.composed[1].duplicates # <<>>)

\* the entries of the listing at or above the threshold, in listing order
RECURSIVE MatchesInOrder(_, _)
MatchesInOrder(a, listing) ==
    IF listing = <<>> THEN <<>>
    ELSE (IF AtSeventyPercent(a, listing[1].title) THEN <<listing[1].number>> ELSE <<>>)
         \o MatchesInOrder(a, Tail(listing))

ListingMatches ==
    IF last.listing = <<>> THEN <<>>
    ELSE MatchesInOrder(last.issue[1].title, last.listing[1])

\* C7 as amended: the section lists the first 3 matches in the order of the
\* listing of the target tracker, whatever their similarity, and the
\* duplicate label is there exactly when there is a match.
C7_SectionIsFirstThree ==
    Composed =>
        /\ CappedAt(SectionOf(last.composed[1]), ListingMatches)
        /\ \A k \in 1..Len(SectionOf(last.composed[1])) :
              SectionOf(last.composed[1])[k].number = ListingMatches[k]
        /\ ("possible-duplicate" \in LabelSet(last.composed[1])) <=> (ListingMatches # <<>>)

\* four matches, the most similar one last in the listing and left out
C7_Witness ==
    /\ Composed
    /\ Len(last.composed[1].duplicates) = 4
    /\ Len(SectionOf(last.composed[1])) = 3
    /\ last.composed[1].duplicates[4].number = "24"
    /\ \A k \in 1..3 :
          /\ SectionOf(last.composed[1])[k].number # "24"
          /\ ~SimLeq(last.composed[1].duplicates[4].similarity,
                     SectionOf(last.composed[1])[k].similarity)
    /\ "possible-duplicate" \in LabelSet(last.composed[1])

\* C8: in every run the rate-limit check precedes any fetch, and a budget
\* below the margin ends the run with no fetch, no create or comment call and
\* the processed set as loaded.
C8_RateLimitFirst ==
    /\ fetched => rate_checked
    /\ (budget < RateLimitMargin /\ pc \notin {"start", "config_error"}) =>
          /\ ~fetched
          /\ last = NoIssue
          /\ processed = disk

\* C9: past the startup validation no collaborator failure ends the run with
\* an error, and a run that ended has persisted its processed set.
C9_NeverCrashes ==
    /\ pc # "crashed"
    /\ pc = "done" => disk = processed

\* a handle without its leading @
Bare(handle) == IF StartsWithAt(handle, 1, "@") THEN Tail(handle) ELSE handle

\* the handles the mapping offers for a category: its entry, or the
\* 'general' entry when the category has none
HandlesFor(category, team) ==
    IF category \in DOMAIN team /\ team[category] # <<>> THEN team[category]
    ELSE IF "general" \in DOMAIN team THEN team["general"]
    ELSE <<>>

\* C10: the assignee posted is the first handle of the category's entry, or
\* of the 'general' entry when the category offers none; when there is such
\* a handle the payload carries exactly that one assignee.
C10_FirstHandleAssigned ==
    (Composed /\ HandlesFor(last.composed[1].category, config.team_assignments) # <<>>)
    => last.composed[1].payload.assignees
         = << Bare(HandlesFor(last.composed[1].category, config.team_assignments)[1]) >>

\* an ordered list of (name, keyword list) rules: the first rule with a
\* substring hit in the text decides, else the default
RECURSIVE FirstHit(_, _, _)
FirstHit(rules, text, default) ==
    IF rules = <<>> THEN default
    ELSE IF \E k \in 1..Len(rules[1][2]) : Contains(rules[1][2][k], text) THEN rules[1][1]
    ELSE FirstHit(Tail(rules), text, default)

PriorityRules ==
    << <<"priority-critical", CriticalWords>>, <<"priority-urgent", UrgentWords>>,
       <<"priority-high", HighWords>>, <<"priority-low", LowWords>> >>

CategoryRules ==
    << <<"bug", BugWords>>, <<"security", SecurityWords>>, <<"wallet", WalletWords>>,
       <<"transaction", TransactionWords>>, <<"contract", ContractWords>>,
       <<"gas-fee", GasFeeWords>>, <<"help", HelpWords>> >>

PriorityNames == { "priority-critical", "priority-urgent", "priority-high", "priority-low",
                   "priority-medium" }

CategoryNames == { "bug", "security", "wallet", "transaction", "contract", "gas-fee",
                   "help", "general" }

\* the lower-cased title and body, an absent body taken as empty
ClassifierText(issue) ==
    Lower(issue.title) \o " " \o (IF issue.body = <<>> THEN "" ELSE Lower(issue.body[1]))

\* number of positions of labels holding a name of the set
CountIn(labels, names) == Cardinality({ k \in 1..Len(labels) : labels[k] \in names })

\* C11: the priority is that of the first of critical, urgent, high, low with
\* a substring hit in the lower-cased title+body (absent body as empty), else
\* medium; the category that of the first of bug, security, wallet,
\* transaction, contract, gas-fee, help with a hit, else general; the labels
\* carry exactly one priority and one category, and the priority computed
\* first is what it was once the category is known.
C11_FirstMatchWins ==
    /\ pc \in {"categorize", "labelled"} =>
          last.composed[1].priority_label
            = FirstHit(PriorityRules, ClassifierText(last.issue[1]), "priority-medium")
    /\ pc = "labelled" =>
          /\ last.composed[1].category
                = FirstHit(CategoryRules, ClassifierText(last.issue[1]), "general")
          /\ CountIn(last.composed[1].labels, PriorityNames) = 1
          /\ CountIn(last.composed[1].labels, CategoryNames) = 1
          /\ last.composed[1].labels[2] = last.composed[1].priority_label
          /\ last.composed[1].labels[3] = last.composed[1].category
          /\ (last.issue[1].title = "Exploit found, minor typo")
                => last.composed[1].priority_label = "priority-critical"
          /\ (last.issue[1].title = "Update README badges" /\ last.issue[1].body = <<>>)
                => /\ last.composed[1].priority_label = "priority-medium"
                   /\ last.composed[1].category = "general"

\* a critical and a low keyword in one title, no body: critical; 'exploit'
\* decides the category as well (security), and nothing else hits
C11_Witness ==
    /\ pc = "labelled"
    /\ last.issue # <<>>
    /\ last.issue[1].title = "Exploit found, minor typo"
    /\ last.issue[1].body = <<>>
    /\ Contains("exploit", ClassifierText(last.issue[1]))
    /\ Contains("minor", ClassifierText(last.issue[1]))
    /\ last.composed[1].priority_label = "priority-critical"
    /\ last.composed[1].category = "security"
    /\ last.composed[1].labels
         = <<"auto-detected", "priority-critical", "security", "source:acme">>

====
